---- MODULE Spec2Model ----
(***************************************************************************)
(* The session guard of src/src/Schemes/Session.js (class SessionScheme)   *)
(* for one request: the guard's fields, the session store, the request and *)
(* response cookies, the provider's remember tokens, and every login that  *)
(* is suspended at `await saveRememberToken` (line 181).                   *)
(*                                                                         *)
(* JavaScript values are records [t, v, u]: t is the type, v the number    *)
(* (or 1/0 for a boolean), u the unit of a number or of a duration string. *)
(* A number of unit "ms" is a plain JS number; a number of unit "s" is a   *)
(* JS number of v * 1000, the form the results of ms() take here, since    *)
(* ms('5y') = 157788000000 does not fit TLC's integers.                    *)
(***************************************************************************)
EXTENDS Integers, Sequences, FiniteSets, TLC

VARIABLES
  user,        \* this.user: the guard's current user, or Null
  dur,         \* this._rememberTokenDuration: the pending remember duration
  session,     \* this._ctx.session: the value under sessionKey (Undef: none)
  reqCookie,   \* this._ctx.request: the remember cookie the request came with
  respCookie,  \* this._ctx.response: what the response does to that cookie
  saved,       \* the provider's remember tokens, each with its user
  minted,      \* how many tokens uuid.v4() has handed out
  frames,      \* the logins suspended at `await saveRememberToken`
  last,        \* the caller's last call: operation, arguments, result, calls
  hist         \* what the caller has done so far, as far as the claims ask

vars ==
  <<user, dur, session, reqCookie, respCookie, saved, minted, frames, last,
    hist>>

\* The largest number of remember tokens uuid.v4() hands out in one request.
MaxTokens == 1

-----------------------------------------------------------------------------
\* JavaScript values

JTrue == [t |-> "bool", v |-> 1, u |-> ""]
JFalse == [t |-> "bool", v |-> 0, u |-> ""]
Undef == [t |-> "undef", v |-> 0, u |-> ""]
Num(n) == [t |-> "num", v |-> n, u |-> "ms"]
Secs(n) == [t |-> "num", v |-> n, u |-> "s"]
Str(n, unit) == [t |-> "str", v |-> n, u |-> unit]

\* if (x), !x, x ? a : b
Truthy(x) ==
  CASE x.t = "bool" -> x.v = 1
    [] x.t = "num" -> x.v # 0
    [] x.t = "str" -> TRUE
    [] OTHER -> FALSE

\* ms(str): the span of "<n><unit>" (in units of 1000 ms), undefined when the
\* string does not parse.
Ms(s) ==
  CASE s.u = "s" -> Secs(s.v)
    [] s.u = "m" -> Secs(s.v * 60)
    [] s.u = "h" -> Secs(s.v * 3600)
    [] s.u = "d" -> Secs(s.v * 86400)
    [] s.u = "y" -> Secs(s.v * 31557600)
    [] OTHER -> Undef

-----------------------------------------------------------------------------
\* Users and the provider (this._serializerInstance)

Null == "null"
DbUsers == {"alice", "bob"}
\* "ghost" is a user object that was never saved: it has no primary key.
UserObjects == DbUsers \cup {"ghost"}
Uids == DbUsers \cup {"nobody"}
Passwords == {"pw-alice", "pw-bob"}

UserId(u) == CASE u = "alice" -> 1 [] u = "bob" -> 2 [] OTHER -> 0
\* 3 is the id of a user that has been deleted since the session was written.
Ids == {1, 2, 3}

\* this.primaryKeyValue with this.user = u (u # Null)
PrimaryKeyValue(u) == IF u \in DbUsers THEN Num(UserId(u)) ELSE Undef

FindByUid(uid) == IF uid \in DbUsers THEN uid ELSE Null

FindById(id) ==
  IF id.t = "num" /\ \E u \in DbUsers : UserId(u) = id.v
  THEN CHOOSE u \in DbUsers : UserId(u) = id.v
  ELSE Null

ValidateCredentails(u, pw) ==
  \/ u = "alice" /\ pw = "pw-alice"
  \/ u = "bob" /\ pw = "pw-bob"

\* Remember tokens: null, the uuids of this request, and those of earlier ones.
NoToken == <<>>
Uuid(n) == <<"uuid", n>>
OldToken == <<"old", 0>>
StaleToken == <<"stale", 0>>

FindByRememberToken(tokens, tok) ==
  IF \E r \in tokens : r.token = tok
  THEN (CHOOSE r \in tokens : r.token = tok).user
  ELSE Null

-----------------------------------------------------------------------------
\* Results of an operation, as its caller sees them

RetUser(u) == [k |-> "user", v |-> u]
RetBool(b) == [k |-> "bool", v |-> IF b THEN "true" ELSE "false"]
RetThis == [k |-> "this", v |-> ""]
RetVoid == [k |-> "void", v |-> ""]
Throw(e) == [k |-> "throw", v |-> e]
Pending == [k |-> "pending", v |-> ""]

NoArg == [u |-> "", pw |-> "", x |-> Undef]

\* pre is the pending remember duration when the operation was called.
Called(op, arg, ret, calls) ==
  [op |-> op, arg |-> arg, ret |-> ret, calls |-> calls, pre |-> dur]

\* hist.loginOf: the user of the last login the caller awaited that returned,
\* Null when there is none or logout() was called since. hist.logins: how many
\* such logins returned since the last remember(...) call (2 for two or more).
\* hist.remembered: whether remember(...) has been called.
LoggedIn(u) ==
  [hist EXCEPT !.loginOf = u, !.logins = IF hist.logins = 0 THEN 1 ELSE 2]

-----------------------------------------------------------------------------
\* The cookie of the response: untouched, set (with its expiry) or cleared.

NoCookie == [state |-> "none", token |-> NoToken, expires |-> Undef]
Cleared == [state |-> "cleared", token |-> NoToken, expires |-> Undef]
SetCookie(tok, d) == [state |-> "set", token |-> tok, expires |-> d]

\* new Resetable(0)
DefaultDuration == Num(0)

Init ==
  /\ user = Null
  /\ dur = DefaultDuration
  /\ session \in {Undef} \cup {Num(i) : i \in Ids}
  /\ reqCookie \in {NoToken, OldToken, StaleToken}
  /\ respCookie = NoCookie
  /\ saved = {[token |-> OldToken, user |-> "alice"]}
  /\ minted = 0
  /\ frames = {}
  /\ last = Called("new", NoArg, RetVoid, <<>>)
  /\ hist = [loginOf |-> Null, logins |-> 0, remembered |-> FALSE]

\* The caller awaits every operation it starts: it is blocked while a login it
\* awaits is suspended.
Idle == \A f \in frames : ~f.awaited

-----------------------------------------------------------------------------
\* remember (duration)

RememberArgs ==
  {JTrue, JFalse, Undef, Num(0), Num(1), Num(5000),
   Str(2, "d"), Str(0, "s"), Str(1, "?")}

\* remember without the `duration === 1` test of line 96.
RememberSetTrueOnly(cur, d) ==
  IF d = JTrue THEN Ms(Str(5, "y"))
  ELSE IF d.t = "str" THEN Ms(d)
  ELSE IF d # Num(0) /\ d # JFalse THEN d
  ELSE cur

\* The value of _rememberTokenDuration after remember(d), from value cur.
\* remember(0) and remember(false) take no branch: the holder keeps cur.
RememberSet(cur, d) ==
  IF d = JTrue \/ d = Num(1) THEN Ms(Str(5, "y"))
  ELSE IF d.t = "str" THEN Ms(d)
  ELSE IF d # Num(0) /\ d # JFalse THEN d
  ELSE cur

\* Bounded: no duration is armed once MaxTokens tokens have been handed out.
Remember(d) ==
  /\ Idle
  /\ minted < MaxTokens
  /\ dur' = RememberSet(dur, d)
  /\ last' = Called("remember", [NoArg EXCEPT !.x = d], RetThis, <<>>)
  /\ hist' = [hist EXCEPT !.logins = 0, !.remembered = TRUE]
  /\ UNCHANGED <<user, session, reqCookie, respCookie, saved, minted, frames>>

-----------------------------------------------------------------------------
\* validate (uid, password, returnUser)

ReturnUserArgs == {JTrue, JFalse, Undef}

\* validate returning false, instead of throwing, on a wrong password.
ValidateResultNoThrow(uid, pw, returnUser) ==
  LET found == FindByUid(uid) IN
  IF found = Null THEN Throw("UserNotFound")
  ELSE IF ~ValidateCredentails(found, pw) THEN RetBool(FALSE)
  ELSE IF Truthy(returnUser) THEN RetUser(found) ELSE RetBool(found # Null)

\* What validate returns or throws (lines 121-131).
ValidateResult(uid, pw, returnUser) ==
  LET found == FindByUid(uid) IN
  IF found = Null THEN Throw("UserNotFound")
  ELSE IF ~ValidateCredentails(found, pw) THEN Throw("PasswordMismatch")
  ELSE IF Truthy(returnUser) THEN RetUser(found) ELSE RetBool(found # Null)

ValidateCalls(uid) ==
  IF FindByUid(uid) = Null THEN <<"findByUid">>
  ELSE <<"findByUid", "validateCredentails">>

\* validate keeping the user it found in this.user.
ValidateKeepsUser(uid, pw, returnUser) ==
  /\ Idle
  /\ last' = Called("validate", [u |-> uid, pw |-> pw, x |-> returnUser],
                    ValidateResult(uid, pw, returnUser), ValidateCalls(uid))
  /\ user' = IF ValidateResult(uid, pw, returnUser).k = "throw"
             THEN user ELSE FindByUid(uid)
  /\ UNCHANGED <<dur, session, reqCookie, respCookie, saved, minted,
                 frames, hist>>

Validate(uid, pw, returnUser) ==
  /\ Idle
  /\ last' = Called("validate", [u |-> uid, pw |-> pw, x |-> returnUser],
                    ValidateResult(uid, pw, returnUser), ValidateCalls(uid))
  /\ UNCHANGED <<user, dur, session, reqCookie, respCookie, saved, minted,
                 frames, hist>>

-----------------------------------------------------------------------------
\* _setSession (primaryKeyValue, rememberToken, duration)

\* _setSession putting the session key only when it sets no cookie.
SetSessionEither(cookie, pkv, tok, duration) ==
  IF tok # NoToken /\ Truthy(duration)
  THEN [session |-> Undef, cookie |-> SetCookie(tok, duration),
        calls |-> <<"response.cookie">>]
  ELSE [session |-> pkv, cookie |-> cookie, calls |-> <<"session.put">>]

SetSession(cookie, pkv, tok, duration) ==
  [session |-> pkv,
   cookie |-> IF tok # NoToken /\ Truthy(duration)
              THEN SetCookie(tok, duration) ELSE cookie,
   calls |-> IF tok # NoToken /\ Truthy(duration)
             THEN <<"session.put", "response.cookie">> ELSE <<"session.put">>]

\* login without the test of line 161.
IsAuthenticatedNever(thisUser) == FALSE

\* if (this.user), line 161
IsAuthenticated(thisUser) == thisUser # Null

\* A read of the holder that does not reset it (get() instead of pull()).
PullKeeps(cur) == [value |-> cur, left |-> cur]

\* this._rememberTokenDuration.pull(): the value read, and the value left.
Pull(cur) == [value |-> cur, left |-> DefaultDuration]

\* const rememberToken = uuid.v4(), whatever the duration.
MintTokenAlways(duration, fresh) == fresh

\* const rememberToken = duration ? uuid.v4() : null, line 179
MintToken(duration, fresh) == IF Truthy(duration) THEN fresh ELSE NoToken

\* login without the test of line 161: it takes the place of the user the
\* guard already has.
LoginSyncReplaces(thisUser, pending, u, fresh) ==
  IF ~Truthy(PrimaryKeyValue(u))
  THEN [exc |-> "MissingIdentifier", user |-> u, dur |-> pending,
        token |-> NoToken, duration |-> Undef, calls |-> <<>>]
  ELSE LET pulled == Pull(pending)
           tok == MintToken(pulled.value, fresh)
       IN [exc |-> "", user |-> u, dur |-> pulled.left,
           token |-> tok, duration |-> pulled.value,
           calls |-> IF tok # NoToken THEN <<"saveRememberToken">> ELSE <<>>]

\* login (user) up to its first suspension: with this.user = thisUser and the
\* pending duration `pending`, and `fresh` the next value of uuid.v4().
\*   exc       the exception thrown ("" when none)
\*   user, dur this.user and the pending duration afterwards
\*   token     the token handed to saveRememberToken (NoToken when none): the
\*             login is then suspended at the await of line 181
\*   duration  the duration pulled
LoginSync(thisUser, pending, u, fresh) ==
  IF IsAuthenticated(thisUser)
  THEN [exc |-> "AlreadyAuthenticated", user |-> thisUser, dur |-> pending,
        token |-> NoToken, duration |-> Undef, calls |-> <<>>]
  ELSE IF ~Truthy(PrimaryKeyValue(u))
  THEN [exc |-> "MissingIdentifier", user |-> u, dur |-> pending,
        token |-> NoToken, duration |-> Undef, calls |-> <<>>]
  ELSE LET pulled == Pull(pending)
           tok == MintToken(pulled.value, fresh)
       IN [exc |-> "", user |-> u, dur |-> pulled.left,
           token |-> tok, duration |-> pulled.value,
           calls |-> IF tok # NoToken THEN <<"saveRememberToken">> ELSE <<>>]

\* A call of login(u) by operation op; awaited says whether the caller of
\* login waits for its result (login, attempt, loginViaId) or drops the
\* promise (check, line 243). ret is what op returns when login does not
\* decide it.
CallLogin(u, op, arg, pre, awaited, ret) ==
  LET r == LoginSync(user, dur, u, Uuid(minted + 1)) IN
  /\ user' = r.user
  /\ dur' = r.dur
  /\ UNCHANGED reqCookie
  /\ IF r.exc # ""
     THEN /\ last' = Called(op, arg, IF awaited THEN Throw(r.exc) ELSE ret,
                            pre \o r.calls)
          /\ UNCHANGED <<session, respCookie, saved, minted, frames, hist>>
     ELSE IF r.token # NoToken
     THEN /\ saved' = saved \cup {[token |-> r.token, user |-> u]}
          /\ minted' = minted + 1
          /\ frames' = frames \cup
               {[user |-> u, token |-> r.token, duration |-> r.duration,
                 awaited |-> awaited]}
          /\ last' = Called(op, arg, IF awaited THEN Pending ELSE ret,
                            pre \o r.calls)
          /\ UNCHANGED <<session, respCookie, hist>>
     ELSE LET w == SetSession(respCookie, PrimaryKeyValue(r.user),
                              r.token, r.duration) IN
          /\ session' = w.session
          /\ respCookie' = w.cookie
          /\ last' = Called(op, arg, IF awaited THEN RetUser(u) ELSE ret,
                            pre \o r.calls \o w.calls)
          /\ hist' = IF awaited THEN LoggedIn(u) ELSE hist
          /\ UNCHANGED <<saved, minted, frames>>

\* login (user)
Login(u) ==
  /\ Idle
  /\ CallLogin(u, "login", [NoArg EXCEPT !.u = u], <<>>, TRUE, RetVoid)

\* The rest of a login after `await saveRememberToken` (lines 184-185).
\* this.primaryKeyValue is read now: with this.user null it throws a TypeError.
Resume(f) ==
  /\ f \in frames
  /\ frames' = frames \ {f}
  /\ UNCHANGED <<user, dur, reqCookie, saved, minted>>
  /\ IF user = Null
     THEN /\ last' = IF f.awaited
                     THEN [last EXCEPT !.ret = Throw("TypeError")] ELSE last
          /\ UNCHANGED <<session, respCookie, hist>>
     ELSE LET w == SetSession(respCookie, PrimaryKeyValue(user),
                              f.token, f.duration) IN
          /\ session' = w.session
          /\ respCookie' = w.cookie
          /\ last' = IF f.awaited
                     THEN [last EXCEPT !.ret = RetUser(f.user),
                                       !.calls = @ \o w.calls]
                     ELSE last
          /\ hist' = IF f.awaited THEN LoggedIn(f.user) ELSE hist

\* saveRememberToken fails: the provider's promise is rejected, nothing is
\* saved, and the login throws at line 181. The failure reaches the caller
\* that awaits the login; a login nobody awaits (line 243) loses it.
Reject(f) ==
  /\ f \in frames
  /\ frames' = frames \ {f}
  /\ saved' = saved \ {[token |-> f.token, user |-> f.user]}
  /\ last' = IF f.awaited
             THEN [last EXCEPT !.ret = Throw("ProviderError")] ELSE last
  /\ UNCHANGED <<user, dur, session, reqCookie, respCookie, minted, hist>>

\* validate(uid, password) without returnUser: it returns true, not the user.
AttemptValidateNoUser(uid, pw) == ValidateResult(uid, pw, Undef)

\* const user = await this.validate(uid, password, true), line 145
AttemptValidate(uid, pw) == ValidateResult(uid, pw, JTrue)

\* attempt (uid, password)
Attempt(uid, pw) ==
  /\ Idle
  /\ LET v == AttemptValidate(uid, pw)
         arg == [NoArg EXCEPT !.u = uid, !.pw = pw] IN
     IF v.k = "throw"
     THEN /\ last' = Called("attempt", arg, v, ValidateCalls(uid))
          /\ UNCHANGED <<user, dur, session, reqCookie, respCookie, saved,
                         minted, frames, hist>>
     ELSE CallLogin(v.v, "attempt", arg, ValidateCalls(uid), TRUE, RetVoid)

\* loginViaId without the test of line 199.
LoginViaIdUnchecked(id) ==
  /\ Idle
  /\ CallLogin(FindById(Num(id)), "loginViaId", [NoArg EXCEPT !.x = Num(id)],
               <<"findById">>, TRUE, RetVoid)

\* loginViaId (id)
LoginViaId(id) ==
  /\ Idle
  /\ LET found == FindById(Num(id))
         arg == [NoArg EXCEPT !.x = Num(id)] IN
     IF found = Null
     THEN /\ last' = Called("loginViaId", arg, Throw("UserNotFound"),
                            <<"findById">>)
          /\ UNCHANGED <<user, dur, session, reqCookie, respCookie, saved,
                         minted, frames, hist>>
     ELSE CallLogin(found, "loginViaId", arg, <<"findById">>, TRUE, RetVoid)

\* logout that forgets the session key and leaves the cookie (line 83 lost).
LogoutSessionOnly ==
  /\ Idle
  /\ user' = Null
  /\ session' = Undef
  /\ last' = Called("logout", NoArg, RetVoid, <<"session.forget">>)
  /\ hist' = [hist EXCEPT !.loginOf = Null]
  /\ UNCHANGED <<dur, reqCookie, respCookie, saved, minted, frames>>

\* logout ()
Logout ==
  /\ Idle
  /\ user' = Null
  /\ session' = Undef
  /\ respCookie' = Cleared
  /\ last' = Called("logout", NoArg, RetVoid,
                    <<"session.forget", "response.clearCookie">>)
  /\ hist' = [hist EXCEPT !.loginOf = Null]
  /\ UNCHANGED <<dur, reqCookie, saved, minted, frames>>

\* check (), and getUser () which returns this.user after it. What the
\* operation returns: check's boolean b, or this.user as check left it.
CheckRet(op, b, u) == IF op = "check" THEN RetBool(b) ELSE RetUser(u)

\* check without the test of line 230.
AlreadyResolvedNever(thisUser) == FALSE

\* if (this.user), line 230
AlreadyResolved(thisUser) == thisUser # Null

\* check with the two tests of lines 237 and 240 in the other order.
CheckPathTokenFirst(sessionValue, rememberMeToken) ==
  IF rememberMeToken # NoToken THEN "remember"
  ELSE IF Truthy(sessionValue) THEN "session"
  ELSE "none"

\* The branch check() takes with this.user unset: "session" (line 237),
\* "remember" (line 240) or "none" (line 248).
CheckPath(sessionValue, rememberMeToken) ==
  IF Truthy(sessionValue) THEN "session"
  ELSE IF rememberMeToken # NoToken THEN "remember"
  ELSE "none"

CheckBody(op) ==
  /\ Idle
  /\ IF AlreadyResolved(user)
     THEN /\ last' = Called(op, NoArg, CheckRet(op, TRUE, user), <<>>)
          /\ UNCHANGED <<user, dur, session, reqCookie, respCookie, saved,
                         minted, frames, hist>>
     ELSE LET sessionValue == session
              rememberMeToken == reqCookie
              path == CheckPath(sessionValue, rememberMeToken)
              reads == <<"session.get", "request.cookie">> IN
          IF path = "session"
          THEN /\ user' = FindById(sessionValue)
               /\ last' = Called(op, NoArg,
                                 CheckRet(op, user' # Null, user'),
                                 reads \o <<"findById">>)
               /\ UNCHANGED <<dur, session, reqCookie, respCookie, saved,
                              minted, frames, hist>>
          ELSE IF path = "remember"
          THEN LET found == FindByRememberToken(saved, rememberMeToken) IN
               IF found # Null
               THEN CallLogin(found, op, NoArg,
                              reads \o <<"findByRememberToken">>, FALSE,
                              CheckRet(op, TRUE, found))
               ELSE /\ last' = Called(op, NoArg, CheckRet(op, FALSE, user),
                                      reads \o <<"findByRememberToken">>)
                    /\ UNCHANGED <<user, dur, session, reqCookie, respCookie,
                                   saved, minted, frames, hist>>
          ELSE /\ last' = Called(op, NoArg, CheckRet(op, FALSE, user), reads)
               /\ UNCHANGED <<user, dur, session, reqCookie, respCookie,
                              saved, minted, frames, hist>>

Check == CheckBody("check")

GetUser == CheckBody("getUser")

Next ==
  \/ \E d \in RememberArgs : Remember(d)
  \/ \E uid \in Uids, pw \in Passwords, r \in ReturnUserArgs :
       Validate(uid, pw, r)
  \/ \E uid \in Uids, pw \in Passwords : Attempt(uid, pw)
  \/ \E u \in UserObjects : Login(u)
  \/ \E id \in Ids : LoginViaId(id)
  \/ Logout
  \/ Check
  \/ GetUser
  \/ \E f \in frames : Resume(f)
  \/ \E f \in frames : Reject(f)

Spec == Init /\ [][Next]_vars

-----------------------------------------------------------------------------
\* The claims

\* C1: after logout() the session key is absent and the response no longer
\* sets the remember cookie, and a check() that follows logout() returns
\* false and a getUser() that follows it returns null, whatever remember
\* token the request arrived with.
C1_AfterLogoutNotAuthenticated ==
  [][/\ Logout => (session' = Undef /\ respCookie'.state # "set")
     /\ (last.op = "logout" /\ Check) => last'.ret = RetBool(FALSE)
     /\ (last.op = "logout" /\ GetUser) => last'.ret = RetUser(Null)]_vars

\* C2: once a login has returned u1 and logout() was not called since, every
\* login(u2) throws AlreadyAuthenticated and leaves the guard's user u1, the
\* session store and the response cookie as they were.
C2_SecondLoginRejected ==
  [][\A u \in UserObjects :
       (hist.loginOf # Null /\ Login(u)) =>
         /\ last'.ret = Throw("AlreadyAuthenticated")
         /\ user' = hist.loginOf
         /\ session' = session
         /\ respCookie' = respCookie]_vars

C2_Witness ==
  /\ last.op = "login"
  /\ last.arg.u = "bob"
  /\ last.ret = Throw("AlreadyAuthenticated")
  /\ hist.loginOf = "alice"
  /\ user = "alice"

\* C3: login(u) on an anonymous guard with a user without primary key throws
\* MissingIdentifier and leaves the guard anonymous, with neither the session
\* key nor the remember cookie written.
C3_MissingIdentifierLeavesAnonymous ==
  [][\A u \in UserObjects :
       (user = Null /\ ~Truthy(PrimaryKeyValue(u)) /\ Login(u)) =>
         /\ last'.ret = Throw("MissingIdentifier")
         /\ user' = Null
         /\ session' = session
         /\ respCookie' = respCookie]_vars

\* Whether the sequence of collaborator calls holds a call of c.
HasCall(calls, c) == \E i \in 1..Len(calls) : calls[i] = c

\* The RememberPolicy table: the duration a remember(x) request asks for;
\* a value that is not truthy stands for "no duration".
PolicyDuration(x) ==
  IF x = JTrue \/ x = Num(1) THEN Secs(5 * 31557600)
  ELSE IF x.t = "str" THEN Ms(x)
  ELSE IF x.t = "num" /\ x.v # 0 THEN x
  ELSE Undef

\* C4: when a login the caller awaited returns, no remember duration is
\* pending; and a login called when such a login has returned and
\* remember(...) was not called since issues no token: it does not call
\* saveRememberToken and does not write the remember cookie.
C4_DurationConsumedOnce ==
  [][/\ \A u \in UserObjects :
          (Login(u) /\ last'.ret.k = "user") => ~Truthy(dur')
     /\ \A f \in frames :
          (f.awaited /\ Resume(f) /\ last'.ret.k = "user") => ~Truthy(dur')
     /\ \A v \in UserObjects :
          (hist.logins >= 1 /\ Login(v)) =>
            /\ ~HasCall(last'.calls, "saveRememberToken")
            /\ frames' = frames
            /\ saved' = saved
            /\ respCookie' = respCookie]_vars

C4_Witness ==
  /\ hist.logins = 2
  /\ reqCookie = NoToken
  /\ [token |-> Uuid(1), user |-> "alice"] \in saved
  /\ respCookie = Cleared
  /\ last.op = "login"
  /\ last.ret = RetUser("bob")
  /\ ~Truthy(dur)

\* C5: a login that follows remember(x) issues a token iff x alone asks for a
\* duration, and then for that duration, whatever remember(...) calls came
\* before: remember(true), remember(0), login issues no token.
C5_LastRememberDecides ==
  [][\A u \in UserObjects :
       (last.op = "remember" /\ Login(u) /\ last'.ret.k # "throw") =>
         LET want == PolicyDuration(last.arg.x) IN
         IF Truthy(want)
         THEN \E f \in frames' \ frames : f.duration = want
         ELSE frames' = frames /\ respCookie' = respCookie]_vars

\* C6: after a login that throws (AlreadyAuthenticated, MissingIdentifier)
\* no remember duration is pending.
C6_FailedLoginClearsDuration ==
  [][\A u \in UserObjects :
       (Login(u) /\ last'.ret.k = "throw") => ~Truthy(dur')]_vars

\* C7: when check() runs on an anonymous guard with no session key and a
\* remember token that resolves to a user, then as it returns true the
\* guard's user is that user and the session key holds its primary key,
\* whatever remember duration is pending.
C7_CheckRememberPathLogsIn ==
  [][(/\ Check
      /\ user = Null
      /\ session = Undef
      /\ FindByRememberToken(saved, reqCookie) # Null) =>
        /\ last'.ret = RetBool(TRUE)
        /\ user' = FindByRememberToken(saved, reqCookie)
        /\ session' = PrimaryKeyValue(user')]_vars

\* C8: when check() runs on an anonymous guard with a session key present,
\* the guard's user becomes the user with that primary key, or null when
\* there is none; check returns whether there is one, never throws, never
\* calls findByRememberToken and performs no login.
C8_CheckSessionPath ==
  [][(Check /\ user = Null /\ session # Undef) =>
        /\ \/ user' \in DbUsers /\ Num(UserId(user')) = session
           \/ user' = Null /\ ~\E u \in DbUsers : Num(UserId(u)) = session
        /\ last'.ret = RetBool(user' # Null)
        /\ ~HasCall(last'.calls, "findByRememberToken")
        /\ ~HasCall(last'.calls, "session.put")
        /\ UNCHANGED <<dur, session, respCookie, saved, minted, frames>>]_vars

C8_Witness ==
  /\ last.op = "check"
  /\ last.ret = RetBool(FALSE)
  /\ HasCall(last.calls, "findById")
  /\ session = Num(3)
  /\ reqCookie = OldToken
  /\ user = Null

C10_ValidateOutcome ==
  last.op = "validate" =>
    LET a == last.arg IN
    /\ a.u \notin DbUsers => last.ret = Throw("UserNotFound")
    /\ (a.u \in DbUsers /\ ~ValidateCredentails(a.u, a.pw)) =>
         last.ret = Throw("PasswordMismatch")
    /\ (a.u \in DbUsers /\ ValidateCredentails(a.u, a.pw)) =>
         last.ret = IF Truthy(a.x) THEN RetUser(a.u) ELSE RetBool(TRUE)
    /\ last.ret # RetBool(FALSE)

C10_Witness ==
  /\ last.op = "validate"
  /\ last.arg.x = Undef
  /\ last.ret = RetBool(TRUE)

\* What login(u) does, told from the state it is called in: its result (Pending
\* when it waits for saveRememberToken) and the state it leaves.
AfterLogin(u) ==
  LET same == [ret |-> RetVoid, user |-> user, dur |-> dur,
               session |-> session, respCookie |-> respCookie,
               saved |-> saved, frames |-> frames] IN
  IF user # Null
  THEN [same EXCEPT !.ret = Throw("AlreadyAuthenticated")]
  ELSE IF u \notin DbUsers
  THEN [same EXCEPT !.ret = Throw("MissingIdentifier"), !.user = u]
  ELSE IF Truthy(dur)
  THEN [same EXCEPT
          !.ret = Pending, !.user = u, !.dur = Num(0),
          !.saved = saved \cup {[token |-> Uuid(minted + 1), user |-> u]},
          !.frames = frames \cup {[user |-> u, token |-> Uuid(minted + 1),
                                    duration |-> dur, awaited |-> TRUE]}]
  ELSE [same EXCEPT !.ret = RetUser(u), !.user = u, !.dur = Num(0),
                    !.session = Num(UserId(u))]

\* The step ends with the result and the state r tells.
EndsAs(r) ==
  /\ last'.ret = r.ret
  /\ user' = r.user
  /\ dur' = r.dur
  /\ session' = r.session
  /\ respCookie' = r.respCookie
  /\ saved' = r.saved
  /\ frames' = r.frames

\* The step changes nothing of the guard, the stores and the provider.
NothingChanged ==
  UNCHANGED <<user, dur, session, reqCookie, respCookie, saved, minted, frames>>

\* C11: attempt(uid, password) ends as validate(uid, password, true) followed
\* by login of the user it returns: with the failure of validate and nothing
\* changed when validate throws, and otherwise with the result (or failure),
\* the guard's user, the session write and the token of login(user) called
\* in the same state.
C11_AttemptIsValidateThenLogin ==
  [][/\ (last'.op = "login" /\ Login(last'.arg.u)) =>
          EndsAs(AfterLogin(last'.arg.u))
     /\ (last'.op = "attempt" /\ Attempt(last'.arg.u, last'.arg.pw)) =>
          LET v == ValidateResult(last'.arg.u, last'.arg.pw, JTrue) IN
          IF v.k = "throw"
          THEN last'.ret = v /\ NothingChanged
          ELSE EndsAs(AfterLogin(v.v))]_vars

C11_Witness ==
  /\ last.op = "attempt"
  /\ last.arg.u = "bob"
  /\ last.ret = RetUser("bob")
  /\ session = Num(2)
  /\ respCookie = SetCookie(Uuid(1), Secs(172800))

\* The client's remember token once the response is delivered.
ClientToken ==
  IF respCookie.state = "set" THEN respCookie.token
  ELSE IF respCookie.state = "cleared" THEN NoToken
  ELSE reqCookie

\* C12 as claimed: logout() never raises and leaves the guard anonymous, the
\* session key forgotten and the client's token cleared; on an anonymous
\* guard, and a second time in a row, it leaves the state as it was.
C12_LogoutIsNoOpWhenAnonymous ==
  [][Logout =>
       /\ last'.ret = RetVoid
       /\ user' = Null /\ session' = Undef /\ ClientToken' = NoToken
       /\ (user = Null \/ last.op = "logout") =>
            /\ user' = user /\ dur' = dur
            /\ session' = session /\ ClientToken' = ClientToken]_vars

\* C12, amended: logout() never raises and leaves the guard anonymous, the
\* session key forgotten and the client's token cleared; a second logout()
\* in a row leaves the state as it was, and logout() on an anonymous guard
\* leaves the guard's user and the pending duration as they were (a session
\* key or a client token still there is dropped all the same).
C12_LogoutIdempotent ==
  [][Logout =>
       /\ last'.ret = RetVoid
       /\ user' = Null /\ session' = Undef /\ ClientToken' = NoToken
       /\ dur' = dur
       /\ last.op = "logout" =>
            /\ user' = user
            /\ session' = session /\ respCookie' = respCookie]_vars

C12_Witness ==
  /\ last.op = "logout"
  /\ user = Null
  /\ session = Undef
  /\ respCookie = Cleared
  /\ [token |-> Uuid(1), user |-> "alice"] \in saved
  /\ frames = {}

\* C13: loginViaId(id) throws UserNotFound and changes nothing when no user
\* has the primary key id; otherwise it ends as login of the user with that
\* key, called in the same state.
C13_LoginViaIdIsFindThenLogin ==
  [][(last'.op = "loginViaId" /\ LoginViaId(last'.arg.x.v)) =>
       LET id == last'.arg.x.v IN
       IF \E u \in DbUsers : UserId(u) = id
       THEN \E u \in DbUsers : UserId(u) = id /\ EndsAs(AfterLogin(u))
       ELSE last'.ret = Throw("UserNotFound") /\ NothingChanged /\ dur' = dur]_vars

C13_Witness ==
  /\ last.op = "loginViaId"
  /\ last.arg.x = Num(3)
  /\ last.ret = Throw("UserNotFound")
  /\ Truthy(dur)

\* C14: when check() (or getUser()) logs a user in from the remember token,
\* then with no remember(...) call before it no duration is pending, and
\* with no duration pending it writes the session key and nothing else: no
\* saveRememberToken call, no remember cookie.
C14_RememberPathKeepsToken ==
  [][(/\ Check \/ GetUser
      /\ user = Null
      /\ session = Undef
      /\ FindByRememberToken(saved, reqCookie) # Null) =>
        /\ ~hist.remembered => ~Truthy(dur)
        /\ ~Truthy(dur) =>
             /\ ~HasCall(last'.calls, "saveRememberToken")
             /\ ~HasCall(last'.calls, "response.cookie")
             /\ HasCall(last'.calls, "session.put")
             /\ session' = Num(UserId(FindByRememberToken(saved, reqCookie)))
             /\ respCookie' = respCookie
             /\ saved' = saved
             /\ frames' = frames]_vars

C14_Witness ==
  /\ last.op = "check"
  /\ last.ret = RetBool(TRUE)
  /\ HasCall(last.calls, "findByRememberToken")
  /\ ~hist.remembered
  /\ session = Num(1)
  /\ respCookie = NoCookie
  /\ saved = {[token |-> OldToken, user |-> "alice"]}

\* C15: when the login that check() started on the remember-token path fails
\* (saveRememberToken fails, or the login throws), the failure reaches the
\* caller of check(): the call ends with a throw, not with true.
C15_CheckLoginFailurePropagates ==
  [][\A f \in frames :
       (~f.awaited /\ (Reject(f) \/ (Resume(f) /\ user = Null))) =>
         /\ last'.op \in {"check", "getUser"}
         /\ last'.ret.k = "throw"]_vars

\* C16: no operation leaves work behind: when an operation has returned, no
\* login is still suspended, every login goes on only while its caller waits
\* for it, and after logout() has returned nothing writes the session key or
\* the remember cookie until the caller's next call.
C16_NoBackgroundWork ==
  [][/\ last'.ret # Pending => frames' = {}
     /\ \A f \in frames : Resume(f) => f.awaited
     /\ (last.op = "logout" /\ last' = last) =>
          (session' = session /\ respCookie' = respCookie)]_vars

\* What a login check() left suspended can do after logout(): it writes the
\* remember cookie with alice's token while bob is the one logged in.
C16_CookieOfAnotherUser ==
  /\ user = "bob"
  /\ session = Num(2)
  /\ respCookie.state = "set"
  /\ [token |-> respCookie.token, user |-> "alice"] \in saved

\* The calls at places i < j of a sequence of calls are in the order a, b
\* wherever both occur.
InOrder(calls, a, b) ==
  \A i, j \in 1..Len(calls) : (calls[i] = b /\ calls[j] = a) => j < i

\* C17: validate changes nothing, whether it returns or throws; attempt calls
\* findByUid, then validateCredentails, then what login calls, and an attempt
\* that throws UserNotFound or PasswordMismatch has changed nothing.
C17_NoMutationBeforeVerification ==
  [][/\ (/\ last'.op = "validate"
          /\ Validate(last'.arg.u, last'.arg.pw, last'.arg.x)) =>
            NothingChanged
     /\ (last'.op = "attempt" /\ Attempt(last'.arg.u, last'.arg.pw)) =>
          /\ last'.calls[1] = "findByUid"
          /\ InOrder(last'.calls, "findByUid", "validateCredentails")
          /\ \A c \in {"saveRememberToken", "session.put", "response.cookie"} :
               /\ InOrder(last'.calls, "validateCredentails", c)
               /\ HasCall(last'.calls, c) =>
                    HasCall(last'.calls, "validateCredentails")
          /\ last'.ret \in {Throw("UserNotFound"), Throw("PasswordMismatch")}
               => NothingChanged]_vars

C17_Witness ==
  /\ last.op = "attempt"
  /\ last.ret = Throw("PasswordMismatch")
  /\ last.calls = <<"findByUid", "validateCredentails">>
  /\ Truthy(dur)
  /\ user = Null
  /\ session = Undef

\* C18: a login that finds a duration pending calls saveRememberToken and
\* writes neither the session key nor the cookie before that call is done;
\* the cookie is set only as such a login goes on, to the token saved for
\* that login's user, together with a put of the session key; a login that
\* finds no duration pending saves no token and sets no cookie.
C18_TokenSavedBeforeHandedOut ==
  [][/\ frames' \ frames # {} =>
          /\ Truthy(dur)
          /\ HasCall(last'.calls, "saveRememberToken")
          /\ ~HasCall(last'.calls, "session.put")
          /\ session' = session /\ respCookie' = respCookie
     /\ (respCookie'.state = "set" /\ respCookie' # respCookie) =>
          \E f \in frames :
            /\ Resume(f)
            /\ respCookie' = SetCookie(f.token, f.duration)
            /\ [token |-> f.token, user |-> f.user] \in saved
            /\ session' = PrimaryKeyValue(user)
            /\ f.awaited =>
                 /\ HasCall(last'.calls, "session.put")
                 /\ InOrder(last'.calls, "saveRememberToken", "session.put")
                 /\ InOrder(last'.calls, "saveRememberToken",
                            "response.cookie")
     /\ (~Truthy(dur) /\ frames \subseteq frames' /\ last' # last) =>
          /\ saved' = saved
          /\ ~HasCall(last'.calls, "saveRememberToken")
          /\ ~HasCall(last'.calls, "response.cookie")]_vars

C18_Witness ==
  /\ last.op = "login"
  /\ last.ret = RetUser("alice")
  /\ last.calls = <<"saveRememberToken", "session.put", "response.cookie">>
  /\ session = Num(1)
  /\ respCookie = SetCookie(Uuid(1), Secs(157788000))
  /\ [token |-> Uuid(1), user |-> "alice"] \in saved

\* C19: a check() called with the guard's user set returns true without a
\* single call to the provider, the session store or the cookies, and leaves
\* the user, the pending duration, the session key, the cookies, the saved
\* tokens and the suspended logins as they were.
C19_CheckWithUserIsImmediate ==
  [][(last'.op = "check" /\ Check /\ user # Null) =>
       /\ last'.ret = RetBool(TRUE)
       /\ last'.calls = <<>>
       /\ NothingChanged]_vars

\* check() has returned true at once for bob, with a duration pending, a
\* session key and a remember cookie of the request it never looked at.
C19_Witness ==
  /\ last.op = "check"
  /\ last.ret = RetBool(TRUE)
  /\ last.calls = <<>>
  /\ last.pre = Secs(157788000)
  /\ dur = Secs(157788000)
  /\ user = "bob"
  /\ session = Num(2)
  /\ reqCookie = OldToken

\* C20: whenever no login is under way, awaited or not, and the guard's user
\* is set, the session key holds the primary key of that user.
C20_UserHasSessionKey ==
  (frames = {} /\ user # Null) =>
    /\ session # Undef
    /\ session = PrimaryKeyValue(user)

\* A login of alice has failed at saveRememberToken, nothing is under way,
\* and the guard's user is alice with no session key written.
C20_UserWithoutSessionKey ==
  /\ frames = {}
  /\ last.op = "login"
  /\ last.ret = Throw("ProviderError")
  /\ user = "alice"
  /\ session = Undef

\* C21: a step that changes the guard's user either sets it, from unset, in
\* a call of login, attempt, loginViaId, check or getUser, or unsets it in a
\* call of logout; no step takes it from one user to another.
C21_UserNeverReplaced ==
  [][user' # user =>
       \/ /\ user = Null
          /\ \/ last'.op = "login" /\ Login(last'.arg.u)
             \/ last'.op = "attempt" /\ Attempt(last'.arg.u, last'.arg.pw)
             \/ last'.op = "loginViaId" /\ LoginViaId(last'.arg.x.v)
             \/ last'.op = "check" /\ Check
             \/ last'.op = "getUser" /\ GetUser
       \/ /\ user # Null
          /\ user' = Null
          /\ Logout]_vars

\* bob has been logged in by attempt after an earlier login had returned and
\* logout had unset its user: the guard's user was set, unset and set again.
C21_Witness ==
  /\ last.op = "attempt"
  /\ last.ret = RetUser("bob")
  /\ hist.logins = 2
  /\ hist.loginOf = "bob"
  /\ user = "bob"
  /\ session = Num(2)
====
